---- MODULE Spec2Model ----
(***************************************************************************)
(* Model of annotate.py: the AnnotationTool session (index, mask, brush,   *)
(* eraser and drawing flags), the mask files of save_dir, and the main     *)
(* loop with its pointer callback.                                         *)
(*                                                                         *)
(* A pixel position is <<x, y>> (column, row), as in cv2's (x, y) points.  *)
(* An array file (.npy) is a record [h, w, px] with px[<<x, y>>] a uint8.  *)
(* The in-memory mask is a record [h, w, px] with px[<<x, y>>] a triple of *)
(* uint8 channels (numpy shape (h, w, 3)).                                 *)
(***************************************************************************)
EXTENDS Integers, Sequences, FiniteSets, TLC

VARIABLES
    img_files,    \* self.img_files: the sorted listing of img_dir
    store,        \* the .npy files of save_dir: mask file name -> array
    index,        \* self.index
    mask,         \* self.mask
    mask_path,    \* self.mask_path
    drawing,      \* self.drawing
    brush_size,   \* self.brush_size
    eraser_mode,  \* self.eraser_mode
    window,       \* the "Annotation Tool" window: open flag and trackbar position
    key,          \* the local `key` of main, between waitKey and the end of its branch
    pc,           \* position of the program: entry, exited, and in main: start,
                  \* waitKey, saved, indexed, loop_end, done, crashed
    nav,          \* history: the run of navigation keys just completed (observation only)
    save_dir,     \* self.save_dir
    proc,         \* the process: its command line (argv), whether args.img_dir is a
                  \* directory (isdir), what it printed, and its exit status
    lbutton       \* the primary button as the callbacks were told: down since the
                  \* last LBUTTONDOWN, up since the last LBUTTONUP

vars == <<img_files, store, index, mask, mask_path, drawing, brush_size,
          eraser_mode, window, key, pc, nav, save_dir, proc, lbutton>>

----------------------------------------------------------------------------
(* Bounds of the exploration *)

\* pointer coordinates delivered to the callback range from Margin before the
\* image's first column and row to Margin past its last (the window is larger
\* than the image, and a drag leaves the window)
Margin == 1
\* slider positions the user drags the trackbar to range over 0 .. MaxSlider
MaxSlider == 2

(* Program constants *)
BrushInit == 5
TrackbarMax == 50
Uint8 == 256

----------------------------------------------------------------------------
(* The command line *)

\* an option of the command line is << >> when it is not given and <<v>> when
\* it is given the value v
NoOptions == [img_dir |-> << >>, save_dir |-> << >>]
Argvs == [img_dir : {<< >>, <<"photos">>}, save_dir : {<< >>, <<"">>, <<"labels">>}]

\* parse_args, lines 10-20
ParseArgs(argv) ==
    [img_dir  |-> IF argv.img_dir = << >> THEN "images" ELSE argv.img_dir[1],
     save_dir |-> IF argv.save_dir = << >> THEN "outputs" ELSE argv.save_dir[1]]

\* line 39: save_dir if save_dir else img_dir
SaveDirOf(img_dir, sd) == IF sd # "" THEN sd ELSE img_dir

\* exit_status while the process runs
Running == -1

----------------------------------------------------------------------------
(* Arrays *)

Pos(h, w) == (0 .. (w - 1)) \X (0 .. (h - 1))

Black == <<0, 0, 0>>
White == <<255, 255, 255>>

\* np.zeros(first_img.shape, np.uint8): an all-zero (h, w, 3) buffer
Zeros3(h, w) == [h |-> h, w |-> w, px |-> [p \in Pos(h, w) |-> Black]]

\* a single-channel (h, w) array filled with v
ConstArray(h, w, v) == [h |-> h, w |-> w, px |-> [p \in Pos(h, w) |-> v]]

\* a single-channel (h, w) array, zero but for the value v at position q
DotArray(h, w, q, v) ==
    [h |-> h, w |-> w, px |-> [p \in Pos(h, w) |-> IF p = q THEN v ELSE 0]]

----------------------------------------------------------------------------
(* File names *)

Img(stem, ext, h, w) == [stem |-> stem, ext |-> ext, h |-> h, w |-> w]

\* os.path.splitext(image_fname)[0] + ".npy", joined to save_dir
MaskPathOf(img) == img.stem \o ".npy"

\* the listings of img_dir explored (glob of *.jpg, *.jpeg, *.png, then sorted):
\* one image; two images of different sizes; two images that differ only in
\* extension, of equal and of different sizes; three images
Listings ==
    { << Img("a", ".png", 2, 2) >>,
      << Img("a", ".png", 1, 2), Img("b", ".jpg", 2, 1) >>,
      << Img("a", ".jpg", 1, 2), Img("a", ".png", 1, 2) >>,
      << Img("a", ".jpg", 1, 2), Img("a", ".png", 1, 1) >>,
      << Img("a", ".png", 1, 2), Img("b", ".jpeg", 1, 1), Img("c", ".jpg", 1, 1) >> }

\* the .npy arrays that may lie in save_dir under an image's mask name before
\* the session starts: an earlier session's masks (empty, full), a 0/255 mask
\* written by another tool, and an array of another shape
ExistingArrays(img) ==
    { ConstArray(img.h, img.w, 0),
      ConstArray(img.h, img.w, 1),
      DotArray(img.h, img.w, <<0, 0>>, 255),
      ConstArray(img.h + 1, img.w, 0) }

MaskNames(files) == { MaskPathOf(files[i]) : i \in 1 .. Len(files) }

ImagesNamed(files, name) ==
    { files[i] : i \in { j \in 1 .. Len(files) : MaskPathOf(files[j]) = name } }

\* the states of save_dir before the session: any subset of the mask names
\* present, each holding one of the arrays above
ExistingStores(files) ==
    UNION { { st \in [names -> UNION { ExistingArrays(files[i]) : i \in 1 .. Len(files) }] :
                \A n \in names : \E im \in ImagesNamed(files, n) : st[n] \in ExistingArrays(im) }
            : names \in SUBSET MaskNames(files) }

----------------------------------------------------------------------------
(* cv2.circle(img, (x, y), radius, color, -1): the filled circle of OpenCV's
   drawing.cpp (Circle with fill, LINE_8, shift 0), clipped to the buffer.
   The result is the set of positions written. *)

HLine(y, x1, x2) == { <<x, y>> : x \in x1 .. x2 }

Max(a, b) == IF a >= b THEN a ELSE b
Min(a, b) == IF a <= b THEN a ELSE b

\* one iteration of the loop body: the rows written for the octant point (dx, dy)
CircleRows(w, h, cx, cy, radius, dx, dy) ==
    LET inside == cx >= radius /\ cx < w - radius /\ cy >= radius /\ cy < h - radius
        y11 == cy - dy
        y12 == cy + dy
        y21 == cy - dx
        y22 == cy + dx
        x11 == cx - dx
        x12 == cx + dx
        x21 == cx - dy
        x22 == cx + dy
        cx11 == Max(x11, 0)
        cx12 == Min(x12, w - 1)
        cx21 == Max(x21, 0)
        cx22 == Min(x22, w - 1)
        Row(y, xa, xb) == IF 0 <= y /\ y < h THEN HLine(y, xa, xb) ELSE {}
    IN  IF inside
        THEN HLine(y11, x11, x12) \cup HLine(y12, x11, x12)
             \cup HLine(y21, x21, x22) \cup HLine(y22, x21, x22)
        ELSE IF x11 < w /\ x12 >= 0 /\ y21 < h /\ y22 >= 0
        THEN Row(y11, cx11, cx12) \cup Row(y12, cx11, cx12)
             \cup (IF x21 < w /\ x22 >= 0
                   THEN Row(y21, cx21, cx22) \cup Row(y22, cx21, cx22)
                   ELSE {})
        ELSE {}

RECURSIVE CircleLoop(_, _, _, _, _, _, _, _, _, _)
CircleLoop(w, h, cx, cy, radius, dx, dy, err, plus, minus) ==
    IF dx < dy THEN {}
    ELSE LET err1 == err + plus
             shrink == err1 > 0
         IN  CircleRows(w, h, cx, cy, radius, dx, dy)
             \cup CircleLoop(w, h, cx, cy, radius,
                             IF shrink THEN dx - 1 ELSE dx,
                             dy + 1,
                             IF shrink THEN err1 - minus ELSE err1,
                             plus + 2,
                             IF shrink THEN minus - 2 ELSE minus)

\* (variant: the centre is taken as (row, column))
CirclePixelsTransposed(w, h, cx, cy, radius) ==
    CircleLoop(w, h, cy, cx, radius, radius, 0, 0, 1, 2 * radius - 1)

CirclePixels(w, h, cx, cy, radius) ==
    CircleLoop(w, h, cx, cy, radius, radius, 0, 0, 1, 2 * radius - 1)

\* cv2.circle on the mask buffer: the positions of the circle take `color`
Circle(m, x, y, radius, color) ==
    LET disc == CirclePixels(m.w, m.h, x, y, radius)
    IN  [m EXCEPT !.px = [p \in DOMAIN m.px |-> IF p \in disc THEN color ELSE m.px[p]]]

----------------------------------------------------------------------------
(* Conversions between the in-memory mask and the array file *)

\* cv2.cvtColor(.., COLOR_BGR2GRAY) on one pixel: fixed-point BT.601 weights
Gray(c) == (c[1] * 1868 + c[2] * 9617 + c[3] * 4899 + 8192) \div 16384

\* (variant: the grayscale mask is saved without the threshold)
GrayOnly(m) ==
    [h |-> m.h, w |-> m.w, px |-> [p \in DOMAIN m.px |-> Gray(m.px[p])]]

\* save_mask, lines 124-125: grayscale, then threshold > 0 to 1 else 0
BinaryMask(m) ==
    [h |-> m.h, w |-> m.w,
     px |-> [p \in DOMAIN m.px |-> IF Gray(m.px[p]) > 0 THEN 1 ELSE 0]]

\* (variant: the channels are stacked but not scaled to 255)
StackOnly(a) ==
    [h |-> a.h, w |-> a.w,
     px |-> [p \in DOMAIN a.px |-> <<a.px[p], a.px[p], a.px[p]>>]]

\* initialize_mask, line 60: np.stack([binary_mask] * 3, axis=-1) * 255 in uint8
Stack255(a) ==
    [h |-> a.h, w |-> a.w,
     px |-> [p \in DOMAIN a.px |->
                LET v == (a.px[p] * 255) % Uint8 IN <<v, v, v>>]]

\* initialize_mask, lines 57-64: the mask for image img given the files st
LoadOrCreate(st, img) ==
    IF MaskPathOf(img) \in DOMAIN st
    THEN Stack255(st[MaskPathOf(img)])
    ELSE Zeros3(img.h, img.w)

\* np.save(self.mask_path, binary_mask): the file is created or overwritten
NpSave(st, path, a) == [n \in DOMAIN st \cup {path} |-> IF n = path THEN a ELSE st[n]]

\* update_window, line 97: cv2.addWeighted raises unless image and mask have
\* the same size (both have 3 channels)
RenderOk(m, img) == m.h = img.h /\ m.w = img.w

----------------------------------------------------------------------------
(* Session state *)

NumImages == Len(img_files)

\* self.img_files[self.index] (index is 0-based in the program)
CurrentImage == img_files[index + 1]

\* (variant: the index stops at the ends instead of wrapping)
NextIndexClamped(k, i, n) ==
    IF k = "a" THEN (IF i = 0 THEN 0 ELSE i - 1)
    ELSE (IF i = n - 1 THEN i ELSE i + 1)

\* (variant: the remainder truncates toward zero, so 'a' at index 0 gives -1)
NextIndexTruncating(k, i, n) ==
    IF k = "a" THEN (IF i = 0 THEN -1 ELSE i - 1) ELSE (i + 1) % n

\* main, lines 156-160: the index after key k
NextIndex(k, i, n) == IF k = "a" THEN (i - 1) % n ELSE (i + 1) % n

\* the coordinates of pointer events over an image n pixels across
Coords(n) == (-Margin) .. (n - 1 + Margin)
SliderPositions == { p \in 0 .. MaxSlider : p <= TrackbarMax }
PointerEvents == {"LBUTTONDOWN", "LBUTTONUP", "MOUSEMOVE", "RBUTTONDOWN"}
\* "x" stands for every key main does not recognise
NoKey == "none"

NoWindow == [open |-> FALSE, trackbar |-> -1]

\* the history of keys: keys is "d", "d","a", a run of at most NumImages "d",
\* or "r" and "r" with the navigation key that followed it; from and snap are
\* the index and mask when the run began, and unseen tells whether the next
\* image had no mask file then.  Any other key ends it, and so does
\* a stamp, which leaves "painted" when it turned a pixel white, "erased" when
\* it turned a white pixel black; the first stamp after a "d", when a pointer
\* move made it (the flag was set before the key), leaves "dragged".
NavNone == [keys |-> << >>, from |-> 0, snap |-> Zeros3(0, 0), unseen |-> FALSE]

AllD(ks) == \A i \in 1 .. Len(ks) : ks[i] = "d"

NavAfterKey(k) ==
    IF nav.keys = <<"r">>
    THEN [nav EXCEPT !.keys = <<"r", k>>]
    ELSE IF k = "d" /\ nav.keys # << >> /\ AllD(nav.keys) /\ Len(nav.keys) < NumImages
    THEN [nav EXCEPT !.keys = Append(nav.keys, "d")]
    ELSE IF k = "a" /\ nav.keys = <<"d">>
    THEN [nav EXCEPT !.keys = <<"d", "a">>]
    ELSE IF k = "d"
    THEN [keys |-> <<"d">>, from |-> index, snap |-> mask,
          unseen |-> MaskPathOf(img_files[NextIndex("d", index, NumImages) + 1])
                        \notin DOMAIN store]
    ELSE NavNone

NavAfterStamp(before, after) ==
    IF \E p \in DOMAIN before.px : before.px[p] # White /\ after.px[p] = White
    THEN [NavNone EXCEPT !.keys = <<"painted">>]
    ELSE IF \E p \in DOMAIN before.px : before.px[p] = White /\ after.px[p] = Black
    THEN [NavNone EXCEPT !.keys = <<"erased">>]
    ELSE NavNone

\* __init__, lines 32-49: the state after construction over a listing and the
\* files already in save_dir, for a command line without options whose img_dir
\* exists.  An empty listing raises in initialize_mask and constructs nothing.
InitOver(files, st) ==
    /\ img_files = files
    /\ store = st
    /\ index = 0
    /\ mask = LoadOrCreate(st, files[1])
    /\ mask_path = MaskPathOf(files[1])
    /\ drawing = FALSE
    /\ brush_size = BrushInit
    /\ eraser_mode = FALSE
    /\ window = NoWindow
    /\ key = NoKey
    /\ pc = "start"
    /\ nav = NavNone
    /\ lbutton = FALSE
    /\ save_dir = SaveDirOf(ParseArgs(NoOptions).img_dir, ParseArgs(NoOptions).save_dir)
    /\ proc = [argv |-> NoOptions, isdir |-> TRUE, printed |-> <<"banner">>,
               exit_status |-> Running]

Init == \E files \in Listings : \E st \in ExistingStores(files) : InitOver(files, st)

\* a session over a save_dir that holds no mask file yet
InitFresh == \E files \in Listings : InitOver(files, << >>)

----------------------------------------------------------------------------
(* main *)

\* lines 140-149: namedWindow, createTrackbar at brush_size, setMouseCallback,
\* update_window; then waitKey blocks.  update_window raises on a mask whose
\* size is not the image's.
OpenWindow ==
    /\ window' = [open |-> TRUE, trackbar |-> brush_size]
    /\ pc' = IF RenderOk(mask, CurrentImage) THEN "waitKey" ELSE "crashed"

\* entry of main: the first iteration up to waitKey
Begin ==
    /\ pc = "start"
    /\ OpenWindow
    /\ UNCHANGED <<img_files, store, index, mask, mask_path, drawing, brush_size,
                   eraser_mode, key, nav, save_dir, proc, lbutton>>

\* line 169 then lines 140-150: destroyAllWindows ends the iteration and the
\* next one recreates the window and renders
LoopBack ==
    /\ pc = "loop_end"
    /\ OpenWindow
    /\ UNCHANGED <<img_files, store, index, mask, mask_path, drawing, brush_size,
                   eraser_mode, key, nav, save_dir, proc, lbutton>>

\* (variant: the mask is saved on the way out)
KeyQuitSaving ==
    /\ pc = "waitKey"
    /\ \E k \in {"q", "esc"} : key' = k
    /\ store' = NpSave(store, mask_path, BinaryMask(mask))
    /\ pc' = "done"
    /\ UNCHANGED <<img_files, index, mask, mask_path, drawing, brush_size,
                   eraser_mode, window, nav, save_dir, proc, lbutton>>

\* lines 152-153: q or ESC breaks out of the loop
KeyQuit ==
    /\ pc = "waitKey"
    /\ \E k \in {"q", "esc"} : key' = k
    /\ pc' = "done"
    /\ UNCHANGED <<img_files, store, index, mask, mask_path, drawing, brush_size,
                   eraser_mode, window, nav, save_dir, proc, lbutton>>

\* (variant: the save is left out)
SaveMaskSkipped == UNCHANGED store

\* save_mask, lines 122-126
SaveMask == store' = NpSave(store, mask_path, BinaryMask(mask))

\* lines 154-155: a or d; save_mask runs first
KeyNavigate ==
    /\ pc = "waitKey"
    /\ \E k \in {"a", "d"} : key' = k /\ nav' = NavAfterKey(k)
    /\ SaveMask
    /\ pc' = "saved"
    /\ UNCHANGED <<img_files, index, mask, mask_path, drawing, brush_size,
                   eraser_mode, window, save_dir, proc, lbutton>>

\* lines 156-160: the index moves, modulo the number of images
StepIndex ==
    /\ pc = "saved"
    /\ index' = NextIndex(key, index, NumImages)
    /\ pc' = "indexed"
    /\ UNCHANGED <<img_files, store, mask, mask_path, drawing, brush_size,
                   eraser_mode, window, key, nav, save_dir, proc, lbutton>>

\* initialize_mask, lines 51-64
InitializeMask ==
    /\ mask_path' = MaskPathOf(CurrentImage)
    /\ mask' = LoadOrCreate(store, CurrentImage)

\* line 161: initialize_mask for the new index; the branch ends
LoadNext ==
    /\ pc = "indexed"
    /\ InitializeMask
    /\ key' = NoKey
    /\ pc' = "loop_end"
    /\ UNCHANGED <<img_files, store, index, drawing, brush_size, eraser_mode,
                   window, nav, save_dir, proc, lbutton>>

\* lines 163-164: e toggles eraser mode
KeyEraser ==
    /\ pc = "waitKey"
    /\ eraser_mode' = ~eraser_mode
    /\ nav' = NavNone
    /\ pc' = "loop_end"
    /\ UNCHANGED <<img_files, store, index, mask, mask_path, drawing, brush_size,
                   window, key, save_dir, proc, lbutton>>

\* (variant: only the first channel is zeroed)
FillFirstChannel(m) ==
    [m EXCEPT !.px = [p \in DOMAIN m.px |-> <<0, m.px[p][2], m.px[p][3]>>]]

\* self.mask.fill(0)
Fill0(m) == [m EXCEPT !.px = [p \in DOMAIN m.px |-> Black]]

\* (variant: the zeroed mask is written to its file at once)
KeyResetSaving ==
    /\ pc = "waitKey"
    /\ mask' = Fill0(mask)
    /\ store' = NpSave(store, mask_path, BinaryMask(mask'))
    /\ nav' = [NavNone EXCEPT !.keys = <<"r">>]
    /\ pc' = "loop_end"
    /\ UNCHANGED <<img_files, index, mask_path, drawing, brush_size,
                   eraser_mode, window, key, save_dir, proc, lbutton>>

\* lines 165-167: r zeroes the mask in place and renders
KeyReset ==
    /\ pc = "waitKey"
    /\ mask' = Fill0(mask)
    /\ nav' = [NavNone EXCEPT !.keys = <<"r">>]
    /\ pc' = IF RenderOk(mask', CurrentImage) THEN "loop_end" ELSE "crashed"
    /\ UNCHANGED <<img_files, store, index, mask_path, drawing, brush_size,
                   eraser_mode, window, key, save_dir, proc, lbutton>>

\* any other key: no branch matches
KeyOther ==
    /\ pc = "waitKey"
    /\ nav' = NavNone
    /\ pc' = "loop_end"
    /\ UNCHANGED <<img_files, store, index, mask, mask_path, drawing, brush_size,
                   eraser_mode, window, key, save_dir, proc, lbutton>>

----------------------------------------------------------------------------
(* Callbacks, delivered while waitKey blocks *)

\* (variant: the eraser flag is not consulted)
StrokeColorWhite == White

\* line 78
StrokeColor == IF eraser_mode THEN Black ELSE White

\* lines 77, 82 and 90: the circle of the trackbar's radius at (x, y) on the mask
Stamp(x, y) == Circle(mask, x, y, window.trackbar, StrokeColor)

\* (variant: a pointer move stamps whether or not the flag is set)
DrawMaskAlwaysPaints(ev, x, y) ==
    LET size == window.trackbar
        stamps == ev = "LBUTTONDOWN" \/ ev = "MOUSEMOVE"
    IN  /\ brush_size' = size
        /\ drawing' = IF ev = "LBUTTONDOWN" THEN TRUE
                      ELSE IF ev = "LBUTTONUP" THEN FALSE
                      ELSE drawing
        /\ mask' = IF stamps THEN Stamp(x, y) ELSE mask
        /\ nav' = IF stamps THEN NavAfterStamp(mask, mask') ELSE nav
        /\ pc' = IF stamps /\ ~RenderOk(mask', CurrentImage) THEN "crashed" ELSE pc

\* (variant: button-up does not clear the flag)
DrawMaskSticky(ev, x, y) ==
    LET size == window.trackbar
        stamps == ev = "LBUTTONDOWN" \/ (ev = "MOUSEMOVE" /\ drawing)
    IN  /\ brush_size' = size
        /\ drawing' = IF ev = "LBUTTONDOWN" THEN TRUE ELSE drawing
        /\ mask' = IF stamps THEN Stamp(x, y) ELSE mask
        /\ nav' = IF stamps THEN NavAfterStamp(mask, mask') ELSE nav
        /\ pc' = IF stamps /\ ~RenderOk(mask', CurrentImage) THEN "crashed" ELSE pc

\* draw_mask, lines 77-91, for the event ev at (x, y)
DrawMask(ev, x, y) ==
    LET size == window.trackbar
        stamps == ev = "LBUTTONDOWN" \/ (ev = "MOUSEMOVE" /\ drawing)
    IN  /\ brush_size' = size
        /\ drawing' = IF ev = "LBUTTONDOWN" THEN TRUE
                      ELSE IF ev = "LBUTTONUP" THEN FALSE
                      ELSE drawing
        /\ mask' = IF stamps THEN Stamp(x, y) ELSE mask
        /\ nav' = IF stamps /\ ev = "MOUSEMOVE" /\ nav.keys = <<"d">>
                  THEN [NavNone EXCEPT !.keys = <<"dragged">>]
                  ELSE IF stamps THEN NavAfterStamp(mask, mask') ELSE nav
        /\ pc' = IF stamps /\ ~RenderOk(mask', CurrentImage) THEN "crashed" ELSE pc

\* the button after the event ev
ButtonAfter(ev) ==
    IF ev = "LBUTTONDOWN" THEN TRUE ELSE IF ev = "LBUTTONUP" THEN FALSE ELSE lbutton

\* the window delivers a pointer event to the mouse callback
Pointer ==
    /\ pc = "waitKey"
    /\ window.open
    /\ \E ev \in PointerEvents : \E x \in Coords(CurrentImage.w) :
          \E y \in Coords(CurrentImage.h) :
             DrawMask(ev, x, y) /\ lbutton' = ButtonAfter(ev)
    /\ UNCHANGED <<img_files, store, index, mask_path, eraser_mode, window, key, save_dir, proc>>

\* (variant: the radius is stored one below the trackbar position)
SetBrushSizeOffByOne(size) == brush_size' = size - 1

\* set_brush_size, lines 128-135
SetBrushSize(size) == brush_size' = size

\* the user drags the trackbar to position p; the trackbar calls set_brush_size
Slider ==
    /\ pc = "waitKey"
    /\ window.open
    /\ \E p \in SliderPositions :
          /\ p # window.trackbar
          /\ window' = [window EXCEPT !.trackbar = p]
          /\ SetBrushSize(p)
    /\ UNCHANGED <<img_files, store, index, mask, mask_path, drawing, eraser_mode,
                   key, pc, nav, save_dir, proc, lbutton>>

----------------------------------------------------------------------------
Next ==
    \/ Begin
    \/ LoopBack
    \/ KeyQuit
    \/ KeyNavigate
    \/ StepIndex
    \/ LoadNext
    \/ KeyEraser
    \/ KeyReset
    \/ KeyOther
    \/ Pointer
    \/ Slider

Spec == Init /\ [][Next]_vars

SpecFresh == InitFresh /\ [][Next]_vars

\* the brush alone, on a square canvas and on one wider than high, with no
\* navigation: the stamps of draw_mask for every centre, radius and colour
InitBrush ==
    \E files \in { << Img("a", ".png", 3, 3) >>, << Img("a", ".png", 2, 4) >> } :
        InitOver(files, << >>)

NextBrush ==
    \/ Begin
    \/ LoopBack
    \/ KeyEraser
    \/ KeyReset
    \/ Pointer
    \/ Slider

SpecBrush == InitBrush /\ [][NextBrush]_vars

\* the pointer across a navigation: one image alone and two images of
\* different shapes, no mask file yet, every key and callback
InitDrag ==
    \E files \in { << Img("a", ".png", 2, 2) >>,
                   << Img("a", ".png", 1, 2), Img("b", ".jpg", 2, 1) >> } :
        InitOver(files, << >>)

SpecDrag == InitDrag /\ [][Next]_vars

----------------------------------------------------------------------------
(* The entry point, lines 172-197 *)

\* the process before line 173: nothing is constructed yet
InitMain ==
    /\ img_files = << >>
    /\ store = << >>
    /\ index = 0
    /\ mask = Zeros3(0, 0)
    /\ mask_path = ""
    /\ drawing = FALSE
    /\ brush_size = BrushInit
    /\ eraser_mode = FALSE
    /\ window = NoWindow
    /\ key = NoKey
    /\ pc = "entry"
    /\ nav = NavNone
    /\ lbutton = FALSE
    /\ save_dir = ""
    /\ \E argv \in Argvs : \E d \in BOOLEAN :
          proc = [argv |-> argv, isdir |-> d, printed |-> << >>, exit_status |-> Running]

\* lines 175-177: img_dir is not a directory; the error is printed and exit()
\* is called without an argument, which ends the process with status 0
MissingDir ==
    /\ pc = "entry"
    /\ ~proc.isdir
    /\ proc' = [proc EXCEPT !.printed = Append(@, "error"), !.exit_status = 0]
    /\ pc' = "exited"
    /\ UNCHANGED <<img_files, store, index, mask, mask_path, drawing, brush_size,
                   eraser_mode, window, key, nav, save_dir, lbutton>>

\* lines 194-196 and __init__: the banner is printed and the session is
\* constructed over the listing of img_dir and the files found in save_dir
Construct ==
    /\ pc = "entry"
    /\ proc.isdir
    /\ proc' = [proc EXCEPT !.printed = Append(@, "banner")]
    /\ save_dir' = SaveDirOf(ParseArgs(proc.argv).img_dir, ParseArgs(proc.argv).save_dir)
    /\ \E files \in Listings : \E st \in ExistingStores(files) :
          /\ img_files' = files
          /\ store' = st
          /\ mask' = LoadOrCreate(st, files[1])
          /\ mask_path' = MaskPathOf(files[1])
    /\ pc' = "start"
    /\ UNCHANGED <<index, drawing, brush_size, eraser_mode, window, key, nav, lbutton>>

\* line 197 returns after the loop is left: the script ends, status 0
Exit ==
    /\ pc = "done"
    /\ proc.exit_status = Running
    /\ proc' = [proc EXCEPT !.exit_status = 0]
    /\ UNCHANGED <<img_files, store, index, mask, mask_path, drawing, brush_size,
                   eraser_mode, window, key, pc, nav, save_dir, lbutton>>

\* the exception raised by update_window is caught nowhere: the interpreter
\* prints the traceback and ends with status 1
Die ==
    /\ pc = "crashed"
    /\ proc.exit_status = Running
    /\ proc' = [proc EXCEPT !.printed = Append(@, "traceback"), !.exit_status = 1]
    /\ UNCHANGED <<img_files, store, index, mask, mask_path, drawing, brush_size,
                   eraser_mode, window, key, pc, nav, save_dir, lbutton>>

\* the whole program, from the command line to the exit status, with the keys
\* of main and without the pointer and the trackbar
NextMain ==
    \/ MissingDir
    \/ Construct
    \/ Begin
    \/ LoopBack
    \/ KeyQuit
    \/ KeyNavigate
    \/ StepIndex
    \/ LoadNext
    \/ KeyReset
    \/ KeyOther
    \/ Exit
    \/ Die

SpecMain == InitMain /\ [][NextMain]_vars

TypeOK ==
    /\ index \in 0 .. (NumImages - 1)
    /\ pc \in {"entry", "exited", "start", "waitKey", "saved", "indexed", "loop_end",
              "done", "crashed"}

----------------------------------------------------------------------------
(* Properties *)

HasOne(a) == \E p \in DOMAIN a.px : a.px[p] = 1
Painted(m) == \E p \in DOMAIN m.px : m.px[p] # Black
ZeroOrWhite(m) == \A p \in DOMAIN m.px : m.px[p] \in {Black, White}

\* C1: on 'a' or 'd' the outgoing image's mask is written to the outgoing
\* image's mask file before the index changes (the index changes only in the
\* step after that save, with the saved file holding the in-memory mask), and
\* the mask of the new index is loaded or created only after the index change.
C1_SaveThenIndexThenLoad ==
    [][ /\ (pc = "waitKey" /\ key' \in {"a", "d"}) =>
              /\ pc' = "saved" /\ index' = index /\ mask' = mask /\ mask_path' = mask_path
              /\ mask_path = MaskPathOf(CurrentImage)
              /\ mask_path \in DOMAIN store'
              /\ store'[mask_path] = BinaryMask(mask)
        /\ (index' # index) =>
              /\ pc = "saved" /\ pc' = "indexed"
              /\ mask_path = MaskPathOf(CurrentImage)
              /\ store[mask_path] = BinaryMask(mask)
              /\ store' = store /\ mask' = mask /\ mask_path' = mask_path
        /\ (pc = "saved") => pc' = "indexed"
        /\ (pc = "indexed") =>
              /\ pc' = "loop_end" /\ index' = index /\ store' = store
              /\ mask_path' = MaskPathOf(CurrentImage)
              /\ mask' = LoadOrCreate(store, CurrentImage)
        /\ (mask_path' # mask_path) => pc = "indexed"
      ]_vars

\* a painted mask of image 0 has been saved and the session has moved to image 1
C1_Witness ==
    /\ pc = "loop_end" /\ index = 1 /\ NumImages >= 2
    /\ mask_path = MaskPathOf(img_files[2])
    /\ MaskPathOf(img_files[1]) # mask_path
    /\ MaskPathOf(img_files[1]) \in DOMAIN store
    /\ HasOne(store[MaskPathOf(img_files[1])])

\* the step of LoadNext that reloads the file save_mask has just written: the
\* new image's mask file is the one the outgoing mask was saved to
ReloadsSavedMask == pc = "indexed" /\ MaskPathOf(CurrentImage) = mask_path

\* C2 as stated: saving and reloading without edits gives back the in-memory
\* mask unchanged; with a single image 'a' and 'd' leave the mask unchanged.
C2_AsStated ==
    [][ ReloadsSavedMask => mask' = mask ]_vars

\* C2 amended: saving and reloading without edits turns every nonzero pixel
\* white and every other pixel (0,0,0), keeping the shape; the mask is
\* unchanged when it held only (0,0,0) and (255,255,255) pixels, also with a
\* single image under 'a' and 'd'.
C2_RoundTrip ==
    [][ ReloadsSavedMask =>
          /\ mask'.h = mask.h /\ mask'.w = mask.w
          /\ DOMAIN mask'.px = DOMAIN mask.px
          /\ \A p \in DOMAIN mask.px :
                mask'.px[p] = IF mask.px[p] # Black THEN White ELSE Black
          /\ (ZeroOrWhite(mask) => mask' = mask)
          /\ (NumImages = 1 /\ ZeroOrWhite(mask) => mask' = mask /\ index' = index)
      ]_vars

\* a mask with painted and unpainted pixels has come back from its file, with
\* a single image
C2_Witness ==
    /\ pc = "loop_end" /\ NumImages = 1
    /\ mask_path \in DOMAIN store
    /\ mask = Stack255(store[mask_path])
    /\ \E p, q \in DOMAIN mask.px : mask.px[p] = White /\ mask.px[q] = Black

\* the image after image i in the listing
Neighbour(i) == img_files[NextIndex("d", i, NumImages) + 1]

\* main is between iterations or waiting: no navigation is half done
Settled == pc \notin {"saved", "indexed"}

\* C3: with at least two images and no mask file at the start, after painting
\* on image i, 'd' then 'a' returns to index i with the in-memory mask equal
\* to the painted one, and the mask file of the neighbour, which had none and
\* was not edited, is all zeros.
C3_AsStated ==
    (pc = "waitKey" /\ NumImages >= 2 /\ nav.keys = <<"d", "a">>
        /\ Painted(nav.snap) /\ nav.unseen) =>
        /\ index = nav.from
        /\ mask = nav.snap
        /\ MaskPathOf(Neighbour(nav.from)) \in DOMAIN store
        /\ store[MaskPathOf(Neighbour(nav.from))]
             = ConstArray(Neighbour(nav.from).h, Neighbour(nav.from).w, 0)

\* C4: navigation is cyclic: NumImages consecutive 'd' return to the index they
\* started from, 'd' then 'a' restores the index, 'a' at index 0 goes to
\* NumImages - 1 and 'd' at NumImages - 1 goes to 0.
C4_Cyclic ==
    /\ [](Settled /\ nav.keys # << >> /\ AllD(nav.keys) /\ Len(nav.keys) = NumImages
            => index = nav.from)
    /\ [](Settled /\ nav.keys = <<"d", "a">> => index = nav.from)
    /\ [][ pc = "saved" =>
              /\ (key = "a" /\ index = 0 => index' = NumImages - 1)
              /\ (key = "a" /\ index > 0 => index' = index - 1)
              /\ (key = "d" /\ index = NumImages - 1 => index' = 0)
              /\ (key = "d" /\ index < NumImages - 1 => index' = index + 1)
        ]_vars

\* three 'd' over three images have come back to image 0
C4_Witness ==
    /\ pc = "waitKey" /\ NumImages = 3
    /\ nav.keys = <<"d", "d", "d">> /\ nav.from = 0 /\ index = 0

\* C5: 'q' or ESC ends the loop and writes no mask file: the files after the
\* quit are those before it, so unsaved edits of the displayed image stay
\* unsaved.
C5_QuitWritesNothing ==
    [][ /\ (pc = "waitKey" /\ key' \in {"q", "esc"}) => (pc' = "done" /\ store' = store)
        /\ (pc = "done") => (pc' = "done" /\ store' = store)
      ]_vars

\* the loop has ended with strokes in memory that the mask file does not hold
C5_Witness ==
    /\ pc = "done" /\ key \in {"q", "esc"}
    /\ Painted(mask)
    /\ (mask_path \notin DOMAIN store \/ store[mask_path] # BinaryMask(mask))

\* C6: the mask files change only in the save of a navigation step ('a' or
\* 'd'); pointer events, 'e', 'r', the trackbar and other keys leave them.
C6_OnlyNavigationWrites ==
    [][ (store' # store) => (pc = "waitKey" /\ pc' = "saved" /\ key' \in {"a", "d"}) ]_vars

\* strokes, a held button, eraser mode and a moved trackbar, and still no file
C6_Witness ==
    /\ pc = "waitKey" /\ DOMAIN store = {}
    /\ Painted(mask) /\ drawing /\ eraser_mode /\ brush_size # BrushInit
    /\ nav.keys = <<"erased">>

\* a single-channel array over {0,1} with the height and width of img
ConformsTo(a, img) ==
    /\ a.h = img.h /\ a.w = img.w
    /\ DOMAIN a.px = Pos(img.h, img.w)
    /\ \A p \in DOMAIN a.px : a.px[p] \in {0, 1}

\* C7: every mask file the session writes is a single-channel array over
\* {0,1} with the height and width of the image it is written for, also when
\* a file was there before the session.
C7_WrittenFilesConform ==
    [][ /\ (pc = "waitKey" /\ pc' = "saved") =>
              /\ mask_path \in DOMAIN store'
              /\ ConformsTo(store'[mask_path], CurrentImage)
        /\ \A n \in DOMAIN store' :
              (n \notin DOMAIN store \/ store'[n] # store[n]) =>
                  (n = MaskPathOf(CurrentImage) /\ ConformsTo(store'[n], CurrentImage))
      ]_vars

\* a 0/255 file found at the start (loaded as value 1) has been overwritten
C7_Witness ==
    /\ pc = "saved"
    /\ \E p \in DOMAIN mask.px : mask.px[p] = <<1, 1, 1>> /\ store[mask_path].px[p] = 1

\* C8: 'r' and then a navigation key leave the image's mask file all zeros,
\* with the image's height and width.
C8_ResetThenSave ==
    (pc = "saved" /\ Len(nav.keys) = 2 /\ nav.keys[1] = "r") =>
        /\ mask_path = MaskPathOf(CurrentImage)
        /\ mask_path \in DOMAIN store
        /\ store[mask_path] = ConstArray(CurrentImage.h, CurrentImage.w, 0)

\* reset then 'd', on an image other than the first, with the button held
C8_Witness ==
    /\ pc = "saved" /\ nav.keys = <<"r", "d">> /\ index = 1 /\ drawing
    /\ store[mask_path] = ConstArray(CurrentImage.h, CurrentImage.w, 0)

\* the pixels at Euclidean distance <= r from (x, y)
InDisc(p, x, y, r) == (p[1] - x) * (p[1] - x) + (p[2] - y) * (p[2] - y) <= r * r

\* the mask with exactly the in-bounds pixels of that disc set to color
DiscStamp(m, x, y, r, color) ==
    [m EXCEPT !.px = [p \in DOMAIN m.px |-> IF InDisc(p, x, y, r) THEN color ELSE m.px[p]]]

\* cv2.circle against the Euclidean disc for every trackbar radius, on a
\* buffer that holds the whole disc and on one that cuts it on every side
CircleIsDisc ==
    \A r \in 0 .. TrackbarMax :
        /\ CirclePixels(2 * r + 1, 2 * r + 1, r, r, r)
             = { p \in Pos(2 * r + 1, 2 * r + 1) : InDisc(p, r, r, r) }
        /\ CirclePixels(r + 2, r + 1, 1, r, r)
             = { p \in Pos(r + 1, r + 2) : InDisc(p, 1, r, r) }

\* the stamp draw_mask applies at (x, y) in this state is the exact disc of
\* the trackbar's radius in color, on a buffer that still renders
StampsAreDiscs(color) ==
    \A x \in Coords(CurrentImage.w) : \A y \in Coords(CurrentImage.h) :
        /\ Stamp(x, y) = DiscStamp(mask, x, y, window.trackbar, color)
        /\ RenderOk(Stamp(x, y), CurrentImage)

\* C9: with eraser mode off, a stamp of radius r at (x, y) (button-down, or a
\* move while drawing) sets exactly the in-bounds pixels at Euclidean distance
\* <= r from (x, y) to white and changes no other pixel, and raises nothing,
\* also when the centre or part of the disc is off the image.
C9_StampIsDisc ==
    /\ (pc = "waitKey" /\ ~eraser_mode) => StampsAreDiscs(White)
    /\ pc # "crashed"
    /\ CircleIsDisc

\* a stamp of radius 1 centred off the image has painted part of it
C9_Witness ==
    /\ pc = "waitKey" /\ ~eraser_mode /\ brush_size = 1 /\ drawing
    /\ nav.keys = <<"painted">>
    /\ mask = DiscStamp(Zeros3(mask.h, mask.w), -1, 0, 1, White)

\* C10: in eraser mode a stamp sets exactly the pixels of its disc to 0 and
\* leaves the others; toggling eraser mode changes no pixel.
C10_EraserStamp ==
    /\ [](pc = "waitKey" /\ eraser_mode => StampsAreDiscs(Black))
    /\ [][ (eraser_mode' # eraser_mode) => (mask' = mask /\ store' = store) ]_vars

\* an eraser stamp has cleared part of a painted region and left the rest
C10_Witness ==
    /\ pc = "waitKey" /\ eraser_mode
    /\ nav.keys = <<"erased">>
    /\ \E p, q \in DOMAIN mask.px : mask.px[p] = White /\ mask.px[q] = Black

\* C3 for listings in which no two images share a mask name (not the claim:
\* the part of it the code keeps)
C3_DistinctNames ==
    (Cardinality(MaskNames(img_files)) = NumImages) => C3_AsStated

\* C11: the display window is destroyed on every exit path of the run loop: in
\* the state the loop is left in after q or ESC, no window of the session is
\* open.
C11_AsStated == (pc = "done") => ~window.open

\* C12: when img_dir does not exist the entry point prints the error and ends
\* with a nonzero exit status, without constructing the session or entering
\* the loop; on the normal path the process ends with status 0 once the quit
\* key is pressed.
C12_AsStated ==
    /\ ~proc.isdir =>
          /\ pc \in {"entry", "exited"}
          /\ img_files = << >> /\ ~window.open
          /\ (pc = "exited") =>
                proc.printed = <<"error">> /\ proc.exit_status \notin {Running, 0}
    /\ (pc = "done" /\ proc.exit_status # Running) => proc.exit_status = 0

\* the parts of C12 the program has: the error message, no session and no
\* loop on a missing img_dir, and status 0 after the quit key
C12_ButForTheStatus ==
    /\ ~proc.isdir =>
          /\ pc \in {"entry", "exited"}
          /\ img_files = << >> /\ ~window.open
          /\ (pc = "exited") => proc.printed = <<"error">> /\ proc.exit_status # Running
    /\ (pc = "done" /\ proc.exit_status # Running) => proc.exit_status = 0

\* C13: when --save_dir is not given on the command line, a mask that has just
\* been saved went into img_dir: the directory save_mask writes to is the
\* directory of the images.
C13_AsStated ==
    (pc = "saved" /\ proc.argv.save_dir = << >>) =>
        save_dir = ParseArgs(proc.argv).img_dir

\* what the program does instead: without --save_dir the masks go to "outputs";
\* img_dir is used only when the option is given and empty
C13_SaveDir ==
    (pc = "saved") =>
        save_dir = IF proc.argv.save_dir = << >> THEN "outputs"
                   ELSE IF proc.argv.save_dir = <<"">> THEN ParseArgs(proc.argv).img_dir
                   ELSE proc.argv.save_dir[1]

\* the images of the listing other than the one at the current index
OtherImages == { img_files[j + 1] : j \in (0 .. (NumImages - 1)) \ {index} }

\* C14: each image has its own mask file.  The save of a navigation step
\* writes the file of the current image only: every other file is as it was,
\* and the file written is the mask file of no other image of the listing.  The
\* load that ends the step reads a file that no other image's mask is saved to.
C14_AsStated ==
    [][ /\ (pc = "waitKey" /\ pc' = "saved") =>
              /\ \A n \in DOMAIN store' \ {MaskPathOf(CurrentImage)} :
                    n \in DOMAIN store /\ store'[n] = store[n]
              /\ \A im \in OtherImages : MaskPathOf(im) # mask_path
        /\ (pc = "indexed") =>
              \A im \in OtherImages : MaskPathOf(im) # mask_path'
      ]_vars

\* the pointer events at every position of the window, as Pointer delivers them
PointerAt == Coords(CurrentImage.w) \X Coords(CurrentImage.h)
Delivered(ev) ==
    /\ pc = "waitKey" /\ window.open
    /\ lbutton' = ButtonAfter(ev)
    /\ \E q \in PointerAt : DrawMask(ev, q[1], q[2])

\* C15: the drawing flag is true only while the primary button is down, as the
\* button events delivered to the callback tell.  It becomes true only in a
\* button-down callback and false only in a button-up callback; every
\* button-down leaves it true and every button-up leaves it false; no key
\* (quit, navigation, eraser, reset, any other) and no step of main changes it,
\* so the flag set before a navigation is still set on the newly loaded mask,
\* where a pointer move then stamps.
C15_DrawingFollowsButton ==
    [][ /\ drawing' => lbutton'
        /\ (drawing' /\ ~drawing) => Delivered("LBUTTONDOWN")
        /\ (drawing /\ ~drawing') => Delivered("LBUTTONUP")
        /\ drawing' \/ ~Delivered("LBUTTONDOWN")
        /\ ~drawing' \/ ~Delivered("LBUTTONUP")
        /\ (pc # "waitKey" \/ key' # key \/ pc' \in {"loop_end", "saved", "done"}) =>
              drawing' = drawing
        /\ (pc = "waitKey" /\ drawing /\ nav.keys = <<"d">> /\ Delivered("MOUSEMOVE")) =>
              /\ drawing'
              /\ \E q \in PointerAt : mask' = Stamp(q[1], q[2])
      ]_vars

\* the button went down on one image, d was pressed, and a pointer move has
\* painted the mask of the image navigated to
C15_Witness ==
    /\ pc = "waitKey" /\ drawing /\ index = 1
    /\ nav.keys = <<"dragged">>
    /\ Painted(mask)

\* C16: a pointer move delivered while the drawing flag is false, and every
\* button-up, leave the in-memory mask, the index, the eraser flag and the mask
\* files as they were, and render nothing (main stays in waitKey).
C16_MoveAndButtonUpAreNoOps ==
    [][ ((~drawing /\ Delivered("MOUSEMOVE")) \/ Delivered("LBUTTONUP")) =>
            /\ mask' = mask /\ index' = index /\ eraser_mode' = eraser_mode
            /\ store' = store /\ mask_path' = mask_path
            /\ pc' = "waitKey"
      ]_vars

\* a stroke has painted the mask and the button-up that ended it has left the
\* paint in place
C16_Witness ==
    /\ pc = "waitKey" /\ ~drawing /\ ~lbutton
    /\ nav.keys = <<"painted">>
    /\ Painted(mask)

\* C17: in every state of a constructed session the index is in 0 .. N - 1, N
\* the number of listed images, whatever 'a' and 'd' presses came before.
C17_IndexInRange == (pc \notin {"entry", "exited"}) => index \in 0 .. (NumImages - 1)

\* 'a' at the first of several images has wrapped the index to the last
C17_Witness ==
    /\ pc = "indexed" /\ key = "a"
    /\ NumImages >= 2 /\ index = NumImages - 1

C19_AsStated ==
    [][ /\ (pc' # "indexed") => mask_path' = MaskPathOf(img_files'[index' + 1])
        /\ (pc = "indexed") => mask' = LoadOrCreate(store, CurrentImage)
        /\ (mask' # mask /\ pc # "indexed") => (pc = "waitKey" /\ index' = index)
        /\ (store' # store) =>
              /\ store' = NpSave(store, MaskPathOf(CurrentImage), BinaryMask(mask))
              /\ \A im \in OtherImages : MaskPathOf(im) # MaskPathOf(CurrentImage)
      ]_vars

\* the part of C19 that does not depend on the images' names: the path and the
\* mask are those of the index, and a save writes that mask to that path
C19_PathAndMaskOfIndex ==
    [][ /\ (pc' # "indexed") => mask_path' = MaskPathOf(img_files'[index' + 1])
        /\ (pc = "indexed") => mask' = LoadOrCreate(store, CurrentImage)
        /\ (mask' # mask /\ pc # "indexed") => (pc = "waitKey" /\ index' = index)
        /\ (store' # store) =>
              store' = NpSave(store, MaskPathOf(CurrentImage), BinaryMask(mask))
      ]_vars

====
